---- MODULE Spec2Model ----
(***************************************************************************)
(* phpsmith: the typed, depth-bounded expression generator                 *)
(* (irgen/expr_generator.go) and the IR printer (irprint/irprint.go).      *)
(*                                                                         *)
(* The generator is a set of mutually recursive Go methods drawing from a  *)
(* PRNG.  It is modelled as a stack machine: `stack` holds one frame per   *)
(* active Go call, `ret` the value a call has just returned, `exprDepth`   *)
(* the generator's depth counter.  Every PRNG draw is a \E over the values *)
(* the draw can produce.  The printer and the string escaper are pure      *)
(* recursive functions over IR trees and byte strings.                     *)
(***************************************************************************)
EXTENDS Integers, Sequences, FiniteSets, TLC

VARIABLES
    scope,      \* the variables in scope (read only by the generator)
    symtab,     \* exprGenerator.symtab: the four function buckets (read only)
    stack,      \* active generator calls, innermost last
    ret,        \* node returned by the call that just ended, or NoRet
    exprDepth,  \* exprGenerator.exprDepth
    status,     \* "run" | "done" | "panic" | "printed"; "print" | "printed node"; "escape"
    draws,      \* chooseExpr option draws charged to the bound MaxDraws
    parens,     \* redundant Parens added by chooseExpr, charged to MaxParens
    retries,    \* times chooseExpr's for-loop started another iteration
    log,        \* history: the last depth cut, comparison or call and its node
    root,       \* the tree handed to the printer
    out,        \* what the printer wrote
    str,        \* input of the string escaper
    esc         \* output of the string escaper

vars == <<scope, symtab, stack, ret, exprDepth, status, draws, parens, retries, log, root, out, str, esc>>

(***************************************************************************)
(* Bounds of the model.                                                    *)
(***************************************************************************)
\* chooseExpr option draws explored per run, not counting a leading chain
\* of unary draws (intNegation, Not): that chain is bounded by the depth cap itself.
MaxDraws == 1
\* redundant Parens that chooseExpr's addParens draw adds, explored per run
MaxParens == 1
\* interpolatedString draws numParts in 3..8; the model explores 3..MaxParts.
MaxParts == 3
\* arrayValue draws numElems in 1..4 (1..2 near the cap); explored up to MaxElems.
MaxElems == 1
\* length of the byte strings given to the escaper
MaxStrLen == 2

\* chooseExpr's depth cap (if g.exprDepth > 10)
DepthCap == 10

Min(a, b) == IF a < b THEN a ELSE b
Max(a, b) == IF a < b THEN b ELSE a
Front(s) == SubSeq(s, 1, Len(s) - 1)

RECURSIVE SeqMax(_)
SeqMax(s) == IF s = <<>> THEN 0 ELSE Max(Head(s), SeqMax(Tail(s)))

RECURSIVE Flatten(_)
Flatten(ss) == IF ss = <<>> THEN <<>> ELSE Head(ss) \o Flatten(Tail(ss))

(***************************************************************************)
(* IR model: values, types, nodes (ir package, spec section 3 and 4.1).    *)
(***************************************************************************)
\* Node.Value: a name or rendered literal in s, bytes or an integer in b.
Val(s, b) == [s |-> s, b |-> b]
NoVal == Val("", <<>>)

Type(k, kind, elems, vals) == [k |-> k, kind |-> kind, elems |-> elems, vals |-> vals]
ScalarType(kind) == Type("scalar", kind, <<>>, <<>>)
NilType == Type("nil", "", <<>>, <<>>)
BoolType == ScalarType("bool")
IntType == ScalarType("int")
FloatType == ScalarType("float")
StringType == ScalarType("string")
MixedType == ScalarType("mixed")
ArrayType(elem) == Type("array", "", <<elem>>, <<>>)
TupleType(elems) == Type("tuple", "", elems, <<>>)
EnumType(kind, vals) == Type("enum", kind, <<>>, vals)

Node(op, args, val, typ) == [op |-> op, args |-> args, val |-> val, typ |-> typ]
\* a nil *ir.Node
Nil == Node("nil", <<>>, NoVal, NilType)
\* no call has returned
NoRet == Node("none", <<>>, NoVal, NilType)

NewBoolLit(v) == Node("BoolLit", <<>>, v, NilType)
NewIntLit(v) == Node("IntLit", <<>>, v, NilType)
NewFloatLit(v) == Node("FloatLit", <<>>, v, NilType)
NewStringLit(v) == Node("StringLit", <<>>, v, NilType)
NewVar(name, typ) == Node("Var", <<>>, Val(name, <<>>), typ)
NewName(name) == Node("Name", <<>>, Val(name, <<>>), NilType)
NewParens(x) == Node("Parens", <<x>>, NoVal, NilType)
NewNegation(x) == Node("Negation", <<x>>, NoVal, NilType)
NewTernary(c, x, y) == Node("Ternary", <<c, x, y>>, NoVal, NilType)
NewIndex(x, key) == Node("Index", <<x, key>>, NoVal, NilType)
NewCall(fn, args) == Node("Call", <<fn>> \o args, NoVal, NilType)
NewCast(x, typ) == Node("Cast", <<x>>, NoVal, typ)

SimpleOps == {"BoolLit", "IntLit", "FloatLit", "StringLit", "Var", "Name", "Call", "Parens", "Index"}
isSimpleNode(n) == n.op \in SimpleOps

RECURSIVE Height(_)
Height(n) == 1 + SeqMax([i \in 1..Len(n.args) |-> Height(n.args[i])])

(***************************************************************************)
(* IR printer (irprint/irprint.go).  The writer's content is a sequence of *)
(* pieces: a written string (k = "s"), escaped string bytes (k = "bytes"), *)
(* a formatted integer (k = "int") or an indentation of b[1] spaces.       *)
(* A printer state is [out, depth, flags, seen]: the writer, printer.depth, *)
(* the printFlags of the last printNode, and the values printer.depth has  *)
(* had so far (a history of the run).                                      *)
(***************************************************************************)
Piece(k, s, b) == [k |-> k, s |-> s, b |-> b]

flagNeedSemicolon == 1
flagNeedNewline == 2
\* a printer that asks for a semicolon after every statement
NeedSemicolonAlways(flags) == TRUE
NeedSemicolon(flags) == flags \in {1, 3}
NeedNewline(flags) == flags \in {2, 3}

NewPrinter == [out |-> <<>>, depth |-> 0, flags |-> 0, seen |-> {0}]
WriteString(p, s) == [p EXCEPT !.out = Append(@, Piece("s", s, <<>>))]
WritePiece(p, pc) == [p EXCEPT !.out = Append(@, pc)]
\* a counter that goes up by 2 at every change
AddDepthUp(p, k) == [p EXCEPT !.depth = @ + 2, !.seen = @ \cup {p.depth + 2}]
\* p.depth += k
AddDepth(p, k) == [p EXCEPT !.depth = @ + k, !.seen = @ \cup {p.depth + k}]
indent(p) == IF p.depth > 0 THEN WritePiece(p, Piece("indent", "", <<p.depth>>)) ELSE p

ModifyOps == {"Add", "Concat", "Sub", "Div", "Mul", "Exp", "Mod", "BitAnd", "BitOr", "BitXor",
              "BitNot", "BitShiftLeft", "BitShiftRight", "NullCoalesce"}
modifyOpLit(op) ==
    IF op \in ModifyOps
    THEN [Add |-> "+", Concat |-> ".", Sub |-> "-", Div |-> "/", Mul |-> "*", Exp |-> "**",
          Mod |-> "%", BitAnd |-> "&", BitOr |-> "|", BitXor |-> "^", BitNot |-> "~",
          BitShiftLeft |-> "<<", BitShiftRight |-> ">>", NullCoalesce |-> "??"][op]
    ELSE ""

\* opcodes printed by printBinary, with their lexeme
BinaryOps == {"Add", "Sub", "Concat", "NullCoalesce", "BitShiftRight", "BitShiftLeft", "BitXor",
              "BitOr", "BitAnd", "Exp", "Mul", "NotEqual2", "NotEqual3", "Spaceship", "AndWord",
              "And", "XorWord", "OrWord", "Or", "Equal2", "Equal3", "Less", "LessOrEqual",
              "Greater", "GreaterOrEqual"}
BinaryLit(op) ==
    [Add |-> "+", Sub |-> "-", Concat |-> ".", NullCoalesce |-> "??", BitShiftRight |-> ">>",
     BitShiftLeft |-> "<<", BitXor |-> "^", BitOr |-> "|", BitAnd |-> "&", Exp |-> "**",
     Mul |-> "*", NotEqual2 |-> "!=", NotEqual3 |-> "!==", Spaceship |-> "<=>",
     AndWord |-> "and", And |-> "&&", XorWord |-> "xor", OrWord |-> "or", Or |-> "||",
     Equal2 |-> "==", Equal3 |-> "===", Less |-> "<", LessOrEqual |-> "<=", Greater |-> ">",
     GreaterOrEqual |-> ">="][op]
PrefixOps == {"BitNot", "Negation", "UnaryPlus", "PreInc", "PreDec", "Not"}
PrefixLit(op) ==
    [BitNot |-> "~", Negation |-> "-", UnaryPlus |-> "+", PreInc |-> "++", PreDec |-> "--",
     Not |-> "!"][op]
PostfixOps == {"PostInc", "PostDec"}
PostfixLit(op) == [PostInc |-> "++", PostDec |-> "--"][op]
\* opcodes printed as a call of a helper function
FloatCmpOps == {"NotFloatEqual2", "NotFloatEqual3", "FloatEqual2", "FloatEqual3"}
FloatCmpHelper(op) ==
    [NotFloatEqual2 |-> "float_neq2", NotFloatEqual3 |-> "float_neq3",
     FloatEqual2 |-> "float_eq2", FloatEqual3 |-> "float_eq3"][op]
SafeHelper(op, typ) ==
    IF op = "Mod"
    THEN (IF typ = FloatType THEN "_safe_float_mod" ELSE "_safe_int_mod")
    ELSE (IF typ = FloatType THEN "_safe_float_div" ELSE "_safe_int_div")

TypeString(typ) == IF typ.k \in {"scalar", "enum"} THEN typ.kind ELSE typ.k

(***************************************************************************)
(* getStringBytes: the escaper of string literals, byte by byte.           *)
(***************************************************************************)
Ch(c) ==
    [r |-> 114, n |-> 110, q |-> 34, bs |-> 92, z |-> 48, a |-> 97, b |-> 98, f |-> 102,
     t |-> 116, v |-> 118][c]
\* the escaper with the case for the backslash left out
escapeByteRawBackslash(ch) ==
    CASE ch = 13 -> <<Ch("bs"), Ch("r")>>
      [] ch = 10 -> <<Ch("bs"), Ch("n")>>
      [] ch = 34 -> <<Ch("bs"), Ch("q")>>
      [] ch = 0 -> <<Ch("bs"), Ch("z"), Ch("z"), Ch("z")>>
      [] ch = 7 -> <<Ch("bs"), Ch("a")>>
      [] ch = 8 -> <<Ch("bs"), Ch("b")>>
      [] ch = 12 -> <<Ch("bs"), Ch("f")>>
      [] ch = 9 -> <<Ch("bs"), Ch("t")>>
      [] ch = 11 -> <<Ch("bs"), Ch("v")>>
      [] OTHER -> IF ch < 32
                  THEN <<Ch("bs"), Ch("z"), (48 + (ch \div 8)) % 256, (48 + (ch % 8)) % 256>>
                  ELSE <<ch>>
\* getStringBytes: the switch on one byte
escapeByte(ch) ==
    CASE ch = 13 -> <<Ch("bs"), Ch("r")>>
      [] ch = 10 -> <<Ch("bs"), Ch("n")>>
      [] ch = 34 -> <<Ch("bs"), Ch("q")>>
      [] ch = 92 -> <<Ch("bs"), Ch("bs")>>
      [] ch = 0 -> <<Ch("bs"), Ch("z"), Ch("z"), Ch("z")>>
      [] ch = 7 -> <<Ch("bs"), Ch("a")>>
      [] ch = 8 -> <<Ch("bs"), Ch("b")>>
      [] ch = 12 -> <<Ch("bs"), Ch("f")>>
      [] ch = 9 -> <<Ch("bs"), Ch("t")>>
      [] ch = 11 -> <<Ch("bs"), Ch("v")>>
      [] OTHER -> IF ch < 32
                  THEN <<Ch("bs"), Ch("z"), (48 + (ch \div 8)) % 256, (48 + (ch % 8)) % 256>>
                  ELSE <<ch>>
getStringBytes(s) == Flatten([i \in 1..Len(s) |-> escapeByte(s[i])])

printString(p, n) ==
    WriteString(WritePiece(WriteString(p, "\""), Piece("bytes", "", getStringBytes(n.val.b))), "\"")

printInterpolatedPart(p, part) ==
    IF part.op = "Var"
    THEN WriteString(WriteString(WriteString(p, "{$"), part.val.s), "}")
    ELSE WritePiece(p, Piece("bytes", "", getStringBytes(part.val.b)))

RECURSIVE printParts(_, _)
printParts(p, parts) ==
    IF parts = <<>> THEN p ELSE printParts(printInterpolatedPart(p, Head(parts)), Tail(parts))

printFloat(p, n) ==
    CASE n.val.s = "0" -> WriteString(p, "0.0")
      [] n.val.s = "NaN" -> WriteString(p, "make_nan()")
      [] n.val.s = "+Inf" -> WriteString(p, "make_positive_inf()")
      [] n.val.s = "-Inf" -> WriteString(p, "make_negative_inf()")
      [] OTHER -> WritePiece(p, Piece("float", n.val.s, <<>>))

printJump(p, n, word) ==
    IF n.val.b = <<0>>
    THEN WriteString(p, word)
    ELSE WritePiece(WriteString(WriteString(p, word), " "), Piece("int", "", n.val.b))

KnownOps ==
    {"Block", "Echo", "Return", "ReturnVoid", "Continue", "Break", "BoolLit", "IntLit",
     "FloatLit", "StringLit", "InterpolatedString", "Index", "Var", "Name", "Assign",
     "AssignModify", "Mod", "Div", "Parens", "Ternary", "ArrayLit", "Call", "Cast", "Switch",
     "While", "If"} \cup BinaryOps \cup PrefixOps \cup PostfixOps \cup FloatCmpOps

\* The writes of a call come after the writes made before it: an operator
\* that takes the printer state p looks at it (Entered) before it applies
\* its own rule, so that the state is evaluated in the order of the code.
Entered(p) == p.depth = p.depth

RECURSIVE printNode(_, _)
RECURSIVE printSeq(_, _)
RECURSIVE printNodes(_, _, _, _)
RECURSIVE printElems(_, _)
RECURSIVE printCases(_, _)

\* the loop of printNodes and of printCall: nodes separated by sep
printNodes(p, nodes, sep, i) ==
    IF ~Entered(p) \/ i > Len(nodes) THEN p
    ELSE printNodes(printNode(IF i # 1 THEN WriteString(p, sep) ELSE p, nodes[i]), nodes, sep, i + 1)

printCall(p, fn, args) ==
    WriteString(printNodes(WriteString(printNode(p, fn), "("), args, ", ", 1), ")")
printSimpleCall(p, name, args) == printCall(p, NewName(name), args)
printUnaryPrefix(p, n, op) == printNode(WriteString(p, op), n.args[1])
printUnaryPostfix(p, n, op) == WriteString(printNode(p, n.args[1]), op)
\* op is written between two spaces; a compound assignment appends "="
printBinary(p, n, op, suffix) ==
    LET p1 == WriteString(WriteString(printNode(p, n.args[1]), " "), op)
        p2 == IF suffix = "" THEN p1 ELSE WriteString(p1, suffix)
    IN  printNode(WriteString(p2, " "), n.args[2])

printSeq(p, nodes) ==
    IF ~Entered(p) \/ nodes = <<>> THEN p
    ELSE LET p1 == printNode(indent(p), Head(nodes))
             p2 == IF NeedSemicolon(p1.flags) THEN WriteString(p1, ";") ELSE p1
             p3 == IF NeedNewline(p1.flags) THEN WriteString(p2, "\n") ELSE p2
         IN  printSeq(p3, Tail(nodes))

\* the loop over the elements of a non-empty ArrayLit
printElems(p, elems) ==
    IF ~Entered(p) \/ elems = <<>> THEN p
    ELSE printElems(WriteString(printNode(indent(p), Head(elems)), ",\n"), Tail(elems))

\* the loop over the Case/Default nodes of a Switch
printCases(p, cases) ==
    IF ~Entered(p) \/ cases = <<>> THEN p
    ELSE LET c == Head(cases)
             p1 == AddDepth(indent(p), 2)
             p2 == IF c.op = "Case"
                   THEN WriteString(printNode(WriteString(p1, "case "), c.args[1]), ":\n")
                   ELSE WriteString(p1, "default:\n")
             body == IF c.op = "Case" THEN Tail(c.args) ELSE c.args
         IN  printCases(AddDepth(printSeq(p2, body), -2), Tail(cases))

\* the printFlags of a rule that ends at `return flagNeedNewline | flagNeedSemicolon`
flagsBoth == flagNeedNewline + flagNeedSemicolon

\* printNode: the rules that return 0 or the flags of the body first, then
\* the rules that fall through to the final return; an opcode without a
\* rule writes nothing and reaches the final return as well
printNode(p, n) ==
    CASE ~Entered(p) -> p
      [] n.op = "Block" ->
            LET q == AddDepth(printSeq(WriteString(AddDepth(p, 2), "{\n"), n.args), -2)
            IN  [indent(q) EXCEPT !.out = Append(@, Piece("s", "}\n", <<>>)), !.flags = 0]
      [] n.op = "Switch" ->
            LET q == AddDepth(
                       printCases(AddDepth(WriteString(printNode(WriteString(p, "switch ("),
                                                                 n.args[1]),
                                               ") {\n"), 2), Tail(n.args)), -2)
            IN  [indent(q) EXCEPT !.out = Append(@, Piece("s", "}\n", <<>>)), !.flags = 0]
      [] n.op = "While" ->
            printNode(WriteString(printNode(WriteString(p, "while ("), n.args[1]), ") "), n.args[2])
      [] n.op = "If" ->
            printNode(WriteString(printNode(WriteString(p, "if ("), n.args[1]), ") "), n.args[2])
      [] n.op = "Echo" ->
            [printNodes(WriteString(p, "echo "), n.args, ", ", 1) EXCEPT !.flags = flagsBoth]
      [] n.op = "Return" ->
            [printNode(WriteString(p, "return "), n.args[1]) EXCEPT !.flags = flagsBoth]
      [] n.op = "ReturnVoid" -> [WriteString(p, "return") EXCEPT !.flags = flagsBoth]
      [] n.op = "Continue" -> [printJump(p, n, "continue") EXCEPT !.flags = flagsBoth]
      [] n.op = "Break" -> [printJump(p, n, "break") EXCEPT !.flags = flagsBoth]
      [] n.op = "BoolLit" -> [WriteString(p, n.val.s) EXCEPT !.flags = flagsBoth]
      [] n.op = "IntLit" -> [WritePiece(p, Piece("int", "", n.val.b)) EXCEPT !.flags = flagsBoth]
      [] n.op = "FloatLit" -> [printFloat(p, n) EXCEPT !.flags = flagsBoth]
      [] n.op = "StringLit" -> [printString(p, n) EXCEPT !.flags = flagsBoth]
      [] n.op = "InterpolatedString" ->
            [printParts(WriteString(p, "\""), n.args) EXCEPT
                !.out = Append(@, Piece("s", "\"", <<>>)), !.flags = flagsBoth]
      [] n.op = "Index" ->
            [printNode(WriteString(printNode(p, n.args[1]), "["), n.args[2]) EXCEPT
                !.out = Append(@, Piece("s", "]", <<>>)), !.flags = flagsBoth]
      [] n.op = "Var" -> [WriteString(WriteString(p, "$"), n.val.s) EXCEPT !.flags = flagsBoth]
      [] n.op = "Name" -> [WriteString(p, n.val.s) EXCEPT !.flags = flagsBoth]
      [] n.op = "Assign" ->
            [printBinary(IF n.val.s # ""
                         THEN WriteString(WriteString(WriteString(p, "/** @var "), n.val.s), " */ ")
                         ELSE p, n, "=", "") EXCEPT !.flags = flagsBoth]
      [] n.op = "AssignModify" ->
            [printBinary(p, n, modifyOpLit(n.val.s), "=") EXCEPT !.flags = flagsBoth]
      [] n.op \in BinaryOps -> [printBinary(p, n, BinaryLit(n.op), "") EXCEPT !.flags = flagsBoth]
      [] n.op \in PrefixOps ->
            [printUnaryPrefix(p, n, PrefixLit(n.op)) EXCEPT !.flags = flagsBoth]
      [] n.op \in PostfixOps ->
            [printUnaryPostfix(p, n, PostfixLit(n.op)) EXCEPT !.flags = flagsBoth]
      [] n.op \in {"Mod", "Div"} ->
            [printSimpleCall(p, SafeHelper(n.op, n.typ), n.args) EXCEPT !.flags = flagsBoth]
      [] n.op \in FloatCmpOps ->
            [printSimpleCall(p, FloatCmpHelper(n.op), n.args) EXCEPT !.flags = flagsBoth]
      [] n.op = "Parens" ->
            [printNode(WriteString(p, "("), n.args[1]) EXCEPT
                !.out = Append(@, Piece("s", ")", <<>>)), !.flags = flagsBoth]
      [] n.op = "Ternary" ->
            [printNode(WriteString(printNode(WriteString(printNode(p, n.args[1]), " ? "),
                                             n.args[2]), " : "), n.args[3])
                EXCEPT !.flags = flagsBoth]
      [] n.op = "ArrayLit" ->
            IF n.args = <<>> THEN [WriteString(p, "array()") EXCEPT !.flags = flagsBoth]
            ELSE [indent(AddDepth(printElems(AddDepth(WriteString(p, "array(\n"), 2), n.args), -2))
                     EXCEPT !.out = Append(@, Piece("s", ")", <<>>)), !.flags = flagsBoth]
      [] n.op = "Call" -> [printCall(p, n.args[1], Tail(n.args)) EXCEPT !.flags = flagsBoth]
      [] n.op = "Cast" ->
            [printNode(WriteString(WriteString(WriteString(p, "("), TypeString(n.typ)), ")"),
                       n.args[1]) EXCEPT !.flags = flagsBoth]
      [] OTHER -> [p EXCEPT !.flags = flagsBoth]

\* printRootNode for a RootStmt
printRootStmt(p, n) ==
    LET p1 == printNode(p, n)
        p2 == IF NeedSemicolon(p1.flags) THEN WriteString(p1, ";") ELSE p1
    IN  IF NeedNewline(p1.flags) THEN WriteString(p2, "\n") ELSE p2

FprintNode(n) == printNode(NewPrinter, n)
FprintRootNode(n) == printRootStmt(NewPrinter, n)

(***************************************************************************)
(* Collaborators of the generator that the repository keeps outside the    *)
(* modelled files: randutil, the value generator, the scope and the symbol *)
(* table (spec sections 4.2 - 4.4).                                        *)
(***************************************************************************)
\* randutil.IntRange(rand, min, max): uniform in [min, max], both included
IntRange(min, max) == min..max
\* rand.Intn(n): uniform in [0, n)
Intn(n) == 0..(n - 1)

\* samples of the value generator's curated sets
BoolValues == {Val("true", <<>>), Val("false", <<>>)}
IntValues == {Val("", <<0>>), Val("", <<-255>>)}
FloatValues == {Val("0", <<>>), Val("NaN", <<>>)}
StringValues == {Val("", <<>>), Val("", <<49, 10, 0>>)}

EnumInt == EnumType("int", <<Val("", <<7>>), Val("", <<9>>)>>)
EnumString == EnumType("string", <<Val("", <<97>>), Val("", <<98, 34>>)>>)
\* an Enum whose value type GenerateValueOfType has no case for
EnumBool == EnumType("bool", <<Val("true", <<>>)>>)
\* a type GenerateValueOfType has no case for
FuncAsType == Type("func", "", <<>>, <<>>)
VoidType == ScalarType("void")

scalarTypes == <<BoolType, IntType, FloatType, StringType>>
scalarTypesNoBool == <<IntType, FloatType, StringType>>

ScopeVar(name, typ) == [name |-> name, typ |-> typ]
ScopeEmpty == <<>>
ScopeSome == <<ScopeVar("s", StringType), ScopeVar("e", EnumInt)>>
Scopes == {ScopeEmpty, ScopeSome}

\* scope.FindVarOfType: the variables whose declared type is structurally equal to typ
FindVarOfType(sc, typ) == {sc[i] : i \in {j \in 1..Len(sc) : sc[j].typ = typ}}

Param(typ, strict) == [typ |-> typ, strict |-> strict]
FuncType(name, params, min, result, needCast) ==
    [name |-> name, params |-> params, min |-> min, result |-> result, needCast |-> needCast]
NoFunc == FuncType("", <<>>, 0, NilType, FALSE)

\* a symbol table with every bucket filled
FullSymtab ==
    [bool |-> <<FuncType("is_finite", <<Param(FloatType, TRUE)>>, 1, BoolType, FALSE)>>,
     int |-> <<FuncType("intdiv", <<Param(IntType, FALSE), Param(EnumInt, TRUE)>>, 1, IntType, TRUE),
               FuncType("rand", <<Param(IntType, TRUE)>>, 0, IntType, FALSE)>>,
     float |-> <<FuncType("floatval", <<Param(MixedType, FALSE)>>, 1, FloatType, TRUE)>>,
     string |-> <<FuncType("implode", <<Param(StringType, FALSE), Param(BoolType, FALSE)>>, 0,
                           StringType, FALSE)>>]
\* the symbol table of scenario S1: a single int function inc(int) -> int
SparseSymtab ==
    [bool |-> <<>>,
     int |-> <<FuncType("inc", <<Param(IntType, FALSE)>>, 1, IntType, FALSE)>>,
     float |-> <<>>,
     string |-> <<>>]

(***************************************************************************)
(* The weighted-choice tables of newExprGenerator.  An option's generate   *)
(* and fallback thunks are producer descriptors [p, op, chan, hint, typ].  *)
(***************************************************************************)
Prod(p, op, chan, hint, typ) == [p |-> p, op |-> op, chan |-> chan, hint |-> hint, typ |-> typ]
NoProd == Prod("", "", "", NilType, NilType)
exprChoice(freq, generate, fallback) == [freq |-> freq, generate |-> generate, fallback |-> fallback]

cmpOpGenerator(op) == Prod("cmpOp", op, "", NilType, NilType)
binaryOpGenerator(op, typeHint, chan) == Prod("binaryOp", op, chan, typeHint, NilType)
unaryOpGenerator(op, chan) == Prod("unaryOp", op, chan, NilType, NilType)
withCast(generator, typ) == [generator EXCEPT !.p = "withCast", !.typ = typ]
LitOf(chan) == Prod("lit", "", chan, NilType, NilType)
VarOf(chan) == Prod("var", "", chan, NilType, NilType)
CallOf(chan) == Prod("callOfType", "", chan, NilType, NilType)
TernaryOf(chan) == Prod("ternary", "", chan, NilType, NilType)
CastOf(typ) == Prod("castToType", "", "", NilType, typ)
intNegation == Prod("intNegation", "", "int", NilType, NilType)
interpolatedString == Prod("interpolatedString", "", "", NilType, NilType)
stringIndex == Prod("stringIndex", "", "", NilType, NilType)

condOptions ==
    << exprChoice(3, cmpOpGenerator("Equal2"), NoProd),
       exprChoice(3, cmpOpGenerator("Equal3"), NoProd),
       exprChoice(4, binaryOpGenerator("And", NilType, "bool"), NoProd),
       exprChoice(4, binaryOpGenerator("Or", NilType, "bool"), NoProd),
       exprChoice(4, unaryOpGenerator("Not", "cond"), NoProd),
       exprChoice(5, VarOf("bool"), LitOf("bool")),
       exprChoice(6, CallOf("bool"), NoProd),
       exprChoice(1, LitOf("bool"), NoProd) >>

boolOptions ==
    << exprChoice(1, cmpOpGenerator("Equal2"), NoProd),
       exprChoice(1, cmpOpGenerator("Equal3"), NoProd),
       exprChoice(3, binaryOpGenerator("And", NilType, "bool"), NoProd),
       exprChoice(3, binaryOpGenerator("Or", NilType, "bool"), NoProd),
       exprChoice(4, unaryOpGenerator("Not", "cond"), NoProd),
       exprChoice(6, VarOf("bool"), LitOf("bool")),
       exprChoice(3, LitOf("bool"), NoProd),
       exprChoice(4, CallOf("bool"), NoProd) >>

intOptions ==
    << exprChoice(1, TernaryOf("int"), NoProd),
       exprChoice(2, withCast(binaryOpGenerator("Add", IntType, "int"), IntType), NoProd),
       exprChoice(2, binaryOpGenerator("Sub", IntType, "int"), NoProd),
       exprChoice(1, withCast(binaryOpGenerator("Mul", IntType, "int"), IntType), NoProd),
       exprChoice(1, binaryOpGenerator("BitAnd", IntType, "int"), NoProd),
       exprChoice(1, binaryOpGenerator("BitOr", IntType, "int"), NoProd),
       exprChoice(1, binaryOpGenerator("BitXor", IntType, "int"), NoProd),
       exprChoice(1, withCast(binaryOpGenerator("Exp", IntType, "int"), IntType), NoProd),
       exprChoice(1, withCast(binaryOpGenerator("Div", IntType, "int"), IntType), NoProd),
       exprChoice(1, withCast(binaryOpGenerator("Mod", IntType, "int"), IntType), NoProd),
       exprChoice(2, intNegation, NoProd),
       exprChoice(2, CastOf(IntType), NoProd),
       exprChoice(7, CallOf("int"), NoProd),
       exprChoice(4, LitOf("int"), NoProd),
       exprChoice(6, VarOf("int"), LitOf("int")) >>

floatOptions ==
    << exprChoice(1, TernaryOf("float"), NoProd),
       exprChoice(2, binaryOpGenerator("Add", FloatType, "float"), NoProd),
       exprChoice(2, binaryOpGenerator("Sub", FloatType, "float"), NoProd),
       exprChoice(1, binaryOpGenerator("Div", FloatType, "float"), NoProd),
       exprChoice(1, binaryOpGenerator("Mul", FloatType, "float"), NoProd),
       exprChoice(5, CallOf("float"), NoProd),
       exprChoice(6, VarOf("float"), LitOf("float")),
       exprChoice(5, LitOf("float"), NoProd) >>

\* the string channel's table with no fallback for stringIndex
stringOptionsBare ==
    << exprChoice(2, CastOf(StringType), NoProd),
       exprChoice(5, CallOf("string"), NoProd),
       exprChoice(4, binaryOpGenerator("Concat", StringType, "string"), NoProd),
       exprChoice(5, LitOf("string"), NoProd),
       exprChoice(5, interpolatedString, NoProd),
       exprChoice(6, VarOf("string"), LitOf("string")),
       exprChoice(2, stringIndex, NoProd) >>
\* stringChoices
stringOptions ==
    << exprChoice(2, CastOf(StringType), NoProd),
       exprChoice(5, CallOf("string"), NoProd),
       exprChoice(4, binaryOpGenerator("Concat", StringType, "string"), NoProd),
       exprChoice(5, LitOf("string"), NoProd),
       exprChoice(5, interpolatedString, NoProd),
       exprChoice(6, VarOf("string"), LitOf("string")),
       exprChoice(2, stringIndex, interpolatedString) >>

\* makeChoicesList: option index i repeated freq_i times
RECURSIVE Repeat(_, _)
Repeat(x, n) == IF n <= 0 THEN <<>> ELSE <<x>> \o Repeat(x, n - 1)
\* an index map that holds every option once, whatever its freq
makeIndexMapOnce(options) == [i \in 1..Len(options) |-> i]
makeIndexMap(options) == Flatten([i \in 1..Len(options) |-> Repeat(i, options[i].freq)])
makeChoicesList(fallback, options) ==
    [indexMap |-> makeIndexMap(options), options |-> options, fallback |-> fallback]

Channels == {"cond", "bool", "int", "float", "string"}
choices ==
    [cond |-> makeChoicesList(LitOf("bool"), condOptions),
     bool |-> makeChoicesList(LitOf("bool"), boolOptions),
     int |-> makeChoicesList(LitOf("int"), intOptions),
     float |-> makeChoicesList(LitOf("float"), floatOptions),
     string |-> makeChoicesList(LitOf("string"), stringOptions)]

ChanType(chan) ==
    [bool |-> BoolType, int |-> IntType, float |-> FloatType, string |-> StringType][chan]
\* boolLit, intLit, floatLit, stringLit: a literal of a value the value generator draws
Literals(chan) ==
    CASE chan = "bool" -> {NewBoolLit(v) : v \in BoolValues}
      [] chan = "int" -> {NewIntLit(v) : v \in IntValues}
      [] chan = "float" -> {NewFloatLit(v) : v \in FloatValues}
      [] chan = "string" -> {NewStringLit(v) : v \in StringValues}
LitOp(chan) == [bool |-> "BoolLit", int |-> "IntLit", float |-> "FloatLit", string |-> "StringLit"][chan]

\* varOfType: a variable of the scope with that type, or nil
varOfType(sc, typ) ==
    IF FindVarOfType(sc, typ) = {} THEN {Nil}
    ELSE {NewVar(v.name, v.typ) : v \in FindVarOfType(sc, typ)}

\* parentheses around every node, simple or not
alwaysAddParens(n) == NewParens(n)
\* maybeAddParens
maybeAddParens(n) == IF isSimpleNode(n) THEN n ELSE NewParens(n)

\* one part of an interpolated string: a variable of a random scalar type when
\* the coin says so and the scope has one, else a string literal
InterpolatedParts(sc) ==
    UNION {varOfType(sc, scalarTypes[t]) \ {Nil} : t \in 1..Len(scalarTypes)} \cup Literals("string")
NumParts == IntRange(3, Min(8, MaxParts))
\* interpolatedString: every node it can return
InterpolatedStrings(sc) ==
    UNION {{Node("InterpolatedString", parts, NoVal, NilType) :
                parts \in [1..n -> InterpolatedParts(sc)]} : n \in NumParts}

\* the nodes a producer that calls no other producer can return (nil included)
LeafProds == {"lit", "var", "interpolatedString"}
LeafResults(sc, prod) ==
    CASE prod.p = "lit" -> Literals(prod.chan)
      [] prod.p = "var" -> varOfType(sc, ChanType(prod.chan))
      [] prod.p = "interpolatedString" -> InterpolatedStrings(sc)

(***************************************************************************)
(* The generator as a stack machine.  A frame is one active call:          *)
(*   fn     the Go function          pc    where chooseExpr / a call is    *)
(*   chan   its channel or bucket    op, hint, typ   the closure's values  *)
(*   f      callOfType's function    n, k  children wanted / called so far *)
(*   i      chooseExpr's option      d     exprDepth when it was entered   *)
(*   args   the children returned so far (callOfType: the final callArgs)  *)
(*   raws   callOfType: the arguments as GenerateValueOfType returned them *)
(***************************************************************************)
Frame(fn, chan, op, hint, typ) ==
    [fn |-> fn, pc |-> "entry", chan |-> chan, op |-> op, hint |-> hint, typ |-> typ,
     f |-> NoFunc, n |-> 0, k |-> 0, i |-> 0, d |-> 0, args |-> <<>>, raws |-> <<>>,
     permit |-> FALSE]
GenerateFrame(typ) == Frame("GenerateValueOfType", "", "", NilType, typ)
\* condValue, boolValue, intValue, floatValue, stringValue
ChooseFrame(chan) == Frame("chooseExpr", chan, "", NilType, NilType)
MixedFrame(permitArray) == [Frame("mixedValue", "", "", NilType, NilType) EXCEPT !.permit = permitArray]
ArrayFrame(elemType) == Frame("arrayValue", "", "", NilType, elemType)
TupleFrame(typ) == Frame("tupleValue", "", "", NilType, typ)
ProducerFrame(prod) == Frame(prod.p, prod.chan, prod.op, prod.hint, prod.typ)

NoLog == [kind |-> "none", node |-> Nil, typ |-> NilType, op |-> "", f |-> NoFunc, raws |-> <<>>, d |-> 0]

Top == stack[Len(stack)]
Running(fn) == status = "run" /\ stack # <<>> /\ Top.fn = fn
SetTop(fr) == [stack EXCEPT ![Len(stack)] = fr]
\* the top frame, updated to fr, calls callee
Call(fr, callee) == stack' = Append(SetTop(fr), callee) /\ ret' = NoRet
\* the top frame returns n to its caller
Return(n) == stack' = Front(stack) /\ ret' = n
\* the top frame's call is a `return g.other(...)`: the callee takes its place
Become(fr) == stack' = SetTop(fr) /\ ret' = NoRet
Panic == status' = "panic" /\ UNCHANGED <<stack, ret>>

Outside == <<scope, symtab, root, out, str, esc>>

\* a return that leaves the counter as it is
exprDepthKept(depth) == depth
\* the deferred `g.exprDepth--` of chooseExpr, callOfType, tupleValue and arrayValue
exprDepthLeave(depth) == depth - 1

\* the cap as the comparison `>=` would make it
DepthCappedAtCap(depth) == depth >= DepthCap
\* no cap at all
DepthNeverCapped(depth) == FALSE
\* chooseExpr's `if g.exprDepth > 10`
DepthCapped(depth) == depth > DepthCap
ArrayDepthLimit == 10

\* a literal of a value the value generator draws, whatever the Enum declares
enumLitOfGenerator(typ, e) == CHOOSE n \in Literals(typ.kind) : TRUE
\* the Enum case's literal: ir.NewIntLit / NewFloatLit / NewStringLit of
\* randutil.Elem(g.rand, typ.Values), e being the index Elem draws
enumLit(typ, e) == Node(LitOp(typ.kind), <<>>, typ.vals[e + 1], NilType)

(* GenerateValueOfType: dispatch on the type *)
GenerateValueOfType ==
    /\ Running("GenerateValueOfType")
    /\ LET typ == Top.typ
           returns(n) == /\ Return(n)
                         /\ log' = [NoLog EXCEPT !.kind = "enum", !.typ = typ, !.node = n]
                         /\ UNCHANGED status
       IN
       IF typ.k = "scalar" /\ typ.kind \in {"bool", "int", "float", "string"}
       THEN Become(ChooseFrame(typ.kind)) /\ UNCHANGED <<status, log>>
       ELSE IF typ.k = "scalar" /\ typ.kind = "mixed"
       THEN Become(MixedFrame(TRUE)) /\ UNCHANGED <<status, log>>
       ELSE IF typ.k = "enum"
       THEN \E rollLow \in BOOLEAN :
              \E v \in (IF rollLow THEN varOfType(scope, typ) ELSE {Nil}) :
                IF v # Nil THEN returns(v)
                ELSE IF typ.kind \in {"int", "float", "string"} /\ typ.vals # <<>>
                THEN \E e \in Intn(Len(typ.vals)) : returns(enumLit(typ, e))
                ELSE Panic /\ UNCHANGED log
       ELSE IF typ.k = "array"
       THEN Become(ArrayFrame(typ.elems[1])) /\ UNCHANGED <<status, log>>
       ELSE IF typ.k = "tuple"
       THEN Become(TupleFrame(typ)) /\ UNCHANGED <<status, log>>
       ELSE Panic /\ UNCHANGED log
    /\ UNCHANGED <<exprDepth, draws, parens, retries, Outside>>

(* chooseExpr: the depth check, then the increment of exprDepth *)
ChooseExprEnter ==
    /\ Running("chooseExpr") /\ Top.pc = "entry"
    /\ IF DepthCapped(exprDepth)
       THEN /\ \E n \in LeafResults(scope, choices[Top.chan].fallback) :
                 /\ Return(n)
                 /\ log' = [NoLog EXCEPT !.kind = "cap", !.d = exprDepth, !.op = Top.chan,
                                         !.node = n]
            /\ UNCHANGED exprDepth
       ELSE /\ exprDepth' = exprDepth + 1
            /\ Become([Top EXCEPT !.pc = "loop", !.d = exprDepth])
            /\ UNCHANGED log
    /\ UNCHANGED <<status, draws, parens, retries, Outside>>

\* a draw that the bound MaxDraws does not count: a unary operator drawn
\* while every active call belongs to the chain of unary operators that
\* starts the run (intValue -> intNegation -> intValue -> ..., or
\* boolValue -> Not -> condValue -> Not -> ...)
FreeDraw(opt) ==
    /\ draws = 0
    /\ opt.generate.p \in {"intNegation", "unaryOp"}
    /\ \A j \in 1..Len(stack) : stack[j].fn \in {"chooseExpr", "intNegation", "unaryOp"}

(* chooseExpr: one iteration of the for-loop up to the call of option.generate *)
ChooseExprProbe ==
    /\ Running("chooseExpr") /\ Top.pc = "loop"
    /\ \E probe \in Intn(Len(choices[Top.chan].indexMap)) :
         LET list == choices[Top.chan]
             idx == list.indexMap[probe + 1]
             opt == list.options[idx]
             fr == [Top EXCEPT !.pc = "gen", !.i = idx]
         IN  /\ IF FreeDraw(opt) THEN TRUE ELSE draws < MaxDraws
             /\ draws' = IF FreeDraw(opt) THEN draws ELSE draws + 1
             /\ IF opt.generate.p \in LeafProds
                THEN \E n \in LeafResults(scope, opt.generate) : stack' = SetTop(fr) /\ ret' = n
                ELSE Call(fr, ProducerFrame(opt.generate))
    /\ UNCHANGED <<status, exprDepth, parens, retries, log, Outside>>

\* rand.Intn(10) <= 3
AddParensRolls == {r \in Intn(10) : r <= 3}

(* chooseExpr: option.generate returned; the fallback, the parentheses, the return *)
ChooseExprGot ==
    /\ Running("chooseExpr") /\ Top.pc = "gen" /\ ret # NoRet
    /\ LET opt == choices[Top.chan].options[Top.i]
           got == IF ret = Nil /\ opt.fallback # NoProd
                  THEN LeafResults(scope, opt.fallback) ELSE {ret}
       IN  \E n \in got :
             IF n # Nil
             THEN /\ \E roll \in Intn(10) :
                       IF roll \in AddParensRolls
                       THEN parens < MaxParens /\ parens' = parens + 1 /\ Return(NewParens(n))
                       ELSE UNCHANGED parens /\ Return(n)
                  /\ exprDepth' = exprDepthLeave(exprDepth)
                  /\ UNCHANGED retries
             ELSE /\ Become([Top EXCEPT !.pc = "loop"])
                  /\ retries' = retries + 1
                  /\ UNCHANGED <<exprDepth, parens>>
    /\ UNCHANGED <<status, draws, log, Outside>>

\* the switch without its case for OpEqual3
cmpResultOpNoEqual3(op, typ) ==
    IF typ.k = "scalar" /\ typ.kind = "float"
    THEN CASE op = "Equal2" -> "FloatEqual2"
           [] op = "NotEqual2" -> "NotFloatEqual2"
           [] op = "NotEqual3" -> "NotFloatEqual3"
           [] OTHER -> op
    ELSE op
\* cmpOpGenerator's choice of resultOp
cmpResultOp(op, typ) ==
    IF typ.k = "scalar" /\ typ.kind = "float"
    THEN CASE op = "Equal2" -> "FloatEqual2"
           [] op = "Equal3" -> "FloatEqual3"
           [] op = "NotEqual2" -> "NotFloatEqual2"
           [] op = "NotEqual3" -> "NotFloatEqual3"
           [] OTHER -> op
    ELSE op

(* cmpOpGenerator's closure *)
cmpOp ==
    /\ Running("cmpOp")
    /\ IF Top.k = 0
       THEN /\ \E t \in Intn(Len(scalarTypes)) :
                 LET typ == scalarTypes[t + 1]
                 IN  Call([Top EXCEPT !.typ = typ, !.k = 1, !.n = 2], GenerateFrame(typ))
            /\ UNCHANGED log
       ELSE /\ ret # NoRet
            /\ IF Top.k = 1
               THEN /\ Call([Top EXCEPT !.args = <<ret>>, !.k = 2], GenerateFrame(Top.typ))
                    /\ UNCHANGED log
               ELSE LET n == Node(cmpResultOp(Top.op, Top.typ),
                                  <<maybeAddParens(Top.args[1]), maybeAddParens(ret)>>,
                                  NoVal, NilType)
                    IN  /\ Return(n)
                        /\ log' = [NoLog EXCEPT !.kind = "cmp", !.node = n, !.typ = Top.typ,
                                                !.op = Top.op, !.raws = <<Top.args[1], ret>>]
    /\ UNCHANGED <<status, exprDepth, draws, parens, retries, Outside>>

(* binaryOpGenerator's closure *)
binaryOp ==
    /\ Running("binaryOp")
    /\ IF Top.k = 0
       THEN Call([Top EXCEPT !.k = 1, !.n = 2], ChooseFrame(Top.chan))
       ELSE /\ ret # NoRet
            /\ IF Top.k = 1
               THEN Call([Top EXCEPT !.args = <<ret>>, !.k = 2], ChooseFrame(Top.chan))
               ELSE Return(Node(Top.op, <<maybeAddParens(Top.args[1]), maybeAddParens(ret)>>,
                                NoVal, Top.hint))
    /\ UNCHANGED <<status, exprDepth, draws, parens, retries, log, Outside>>

(* unaryOpGenerator's closure *)
unaryOp ==
    /\ Running("unaryOp")
    /\ IF Top.k = 0
       THEN Call([Top EXCEPT !.k = 1, !.n = 1], ChooseFrame(Top.chan))
       ELSE /\ ret # NoRet
            /\ Return(Node(Top.op, <<maybeAddParens(ret)>>, NoVal, NilType))
    /\ UNCHANGED <<status, exprDepth, draws, parens, retries, log, Outside>>

(* withCast's closure around a binaryOpGenerator *)
withCastOp ==
    /\ Running("withCast")
    /\ IF Top.k = 0
       THEN Call([Top EXCEPT !.k = 1, !.n = 1],
                 Frame("binaryOp", Top.chan, Top.op, Top.hint, NilType))
       ELSE /\ ret # NoRet
            /\ Return(NewCast(maybeAddParens(ret), Top.typ))
    /\ UNCHANGED <<status, exprDepth, draws, parens, retries, log, Outside>>

(* intTernary, floatTernary and newTernary *)
ternary ==
    /\ Running("ternary")
    /\ IF Top.k = 0
       THEN Call([Top EXCEPT !.k = 1, !.n = 3], ChooseFrame("cond"))
       ELSE /\ ret # NoRet
            /\ IF Top.k < 3
               THEN Call([Top EXCEPT !.args = Append(@, ret), !.k = @ + 1], ChooseFrame(Top.chan))
               ELSE \E px \in BOOLEAN, py \in BOOLEAN :
                      LET x == IF px THEN NewParens(Top.args[2]) ELSE Top.args[2]
                          y == IF py THEN NewParens(ret) ELSE ret
                      IN  Return(NewParens(NewTernary(Top.args[1], x, y)))
    /\ UNCHANGED <<status, exprDepth, draws, parens, retries, log, Outside>>

(* intNegation *)
intNegationOp ==
    /\ Running("intNegation")
    /\ IF Top.k = 0
       THEN Call([Top EXCEPT !.k = 1, !.n = 1], ChooseFrame("int"))
       ELSE /\ ret # NoRet
            /\ Return(NewNegation(maybeAddParens(ret)))
    /\ UNCHANGED <<status, exprDepth, draws, parens, retries, log, Outside>>

(* castToType (intCast, stringCast) *)
castToType ==
    /\ Running("castToType")
    /\ IF Top.k = 0
       THEN Call([Top EXCEPT !.k = 1, !.n = 1], MixedFrame(FALSE))
       ELSE /\ ret # NoRet
            /\ Return(NewCast(maybeAddParens(ret), Top.typ))
    /\ UNCHANGED <<status, exprDepth, draws, parens, retries, log, Outside>>

(* mixedValue *)
mixedValue ==
    /\ Running("mixedValue")
    /\ LET maxRoll == IF exprDepth >= ArrayDepthLimit \/ ~Top.permit THEN 3 ELSE 4
       IN  \E roll \in IntRange(0, maxRoll) :
             IF roll < 4
             THEN Become(ChooseFrame(<<"bool", "int", "float", "string">>[roll + 1]))
             ELSE \E t \in Intn(Len(scalarTypes)) : Become(ArrayFrame(scalarTypes[t + 1]))
    /\ UNCHANGED <<status, exprDepth, draws, parens, retries, log, Outside>>

\* a cast of every argument, strict or not
callArgAlwaysCast(f, i, arg) == NewCast(maybeAddParens(arg), f.params[i].typ)
\* callOfType's argument i as it is stored in callArgs
callArg(f, i, arg) ==
    IF f.params[i].strict THEN NewCast(maybeAddParens(arg), f.params[i].typ) ELSE arg
\* callOfType's result from the final callArgs
callResult(f, callArgs) ==
    LET result == NewCall(NewName(f.name), callArgs)
    IN  IF f.needCast THEN NewCast(result, f.result) ELSE result
numArgsRange(f) == IntRange(f.min, Len(f.params))

(* boolCall, intCall, floatCall, stringCall and callOfType *)
callOfType ==
    /\ Running("callOfType")
    /\ IF Top.pc = "entry"
       THEN IF symtab[Top.chan] = <<>>
            THEN Panic /\ UNCHANGED <<exprDepth, log>>
            ELSE \E fi \in Intn(Len(symtab[Top.chan])) :
                   LET f == symtab[Top.chan][fi + 1]
                   IN  \E numArgs \in numArgsRange(f) :
                         /\ UNCHANGED status
                         /\ IF numArgs = 0
                            THEN /\ Return(callResult(f, <<>>))
                                 /\ exprDepth' = exprDepth
                                 /\ log' = [NoLog EXCEPT !.kind = "call", !.f = f,
                                                         !.node = callResult(f, <<>>)]
                            ELSE /\ Call([Top EXCEPT !.pc = "run", !.f = f, !.n = numArgs,
                                                     !.k = 1, !.d = exprDepth],
                                         GenerateFrame(f.params[1].typ))
                                 /\ exprDepth' = exprDepth + 1
                                 /\ UNCHANGED log
       ELSE /\ ret # NoRet
            /\ UNCHANGED status
            /\ LET callArgs == Append(Top.args, callArg(Top.f, Top.k, ret))
                   raws == Append(Top.raws, ret)
               IN  IF Top.k < Top.n
                   THEN /\ Call([Top EXCEPT !.args = callArgs, !.raws = raws, !.k = @ + 1],
                                GenerateFrame(Top.f.params[Top.k + 1].typ))
                        /\ UNCHANGED <<exprDepth, log>>
                   ELSE /\ Return(callResult(Top.f, callArgs))
                        /\ exprDepth' = exprDepthLeave(exprDepth)
                        /\ log' = [NoLog EXCEPT !.kind = "call", !.f = Top.f, !.raws = raws,
                                                !.node = callResult(Top.f, callArgs)]
    /\ UNCHANGED <<draws, parens, retries, Outside>>

(* arrayValue *)
arrayValue ==
    /\ Running("arrayValue")
    /\ IF Top.pc = "entry"
       THEN LET maxNumElems == IF exprDepth + 1 >= ArrayDepthLimit THEN 2 ELSE 4
            IN  /\ \E numElems \in IntRange(1, Min(maxNumElems, MaxElems)) :
                     Call([Top EXCEPT !.pc = "run", !.n = numElems, !.k = 1, !.d = exprDepth],
                          GenerateFrame(Top.typ))
                /\ exprDepth' = exprDepth + 1
       ELSE /\ ret # NoRet
            /\ IF Top.k < Top.n
               THEN /\ Call([Top EXCEPT !.args = Append(@, ret), !.k = @ + 1],
                            GenerateFrame(Top.typ))
                    /\ UNCHANGED exprDepth
               ELSE /\ Return(Node("ArrayLit", Append(Top.args, ret), NoVal, NilType))
                    /\ exprDepth' = exprDepthLeave(exprDepth)
    /\ UNCHANGED <<status, draws, parens, retries, log, Outside>>

(* tupleValue *)
tupleValue ==
    /\ Running("tupleValue")
    /\ IF Top.pc = "entry"
       THEN IF Top.typ.elems = <<>>
            THEN Return(NewCall(NewName("tuple"), <<>>)) /\ UNCHANGED exprDepth
            ELSE /\ Call([Top EXCEPT !.pc = "run", !.n = Len(Top.typ.elems), !.k = 1,
                                     !.d = exprDepth],
                         GenerateFrame(Top.typ.elems[1]))
                 /\ exprDepth' = exprDepth + 1
       ELSE /\ ret # NoRet
            /\ IF Top.k < Top.n
               THEN /\ Call([Top EXCEPT !.args = Append(@, ret), !.k = @ + 1],
                            GenerateFrame(Top.typ.elems[Top.k + 1]))
                    /\ UNCHANGED exprDepth
               ELSE /\ Return(NewCall(NewName("tuple"), Append(Top.args, ret)))
                    /\ exprDepth' = exprDepthLeave(exprDepth)
    /\ UNCHANGED <<status, draws, parens, retries, log, Outside>>

(* stringIndex (with lvalueOfType) *)
stringIndexOp ==
    /\ Running("stringIndex")
    /\ IF Top.k = 0
       THEN \E lvalue \in varOfType(scope, StringType) :
              IF lvalue = Nil
              THEN Return(Nil)
              ELSE \E roll \in IntRange(0, 10) :
                     IF roll > 2
                     THEN Call([Top EXCEPT !.args = <<maybeAddParens(lvalue)>>, !.k = 1, !.n = 1],
                               ChooseFrame("int"))
                     ELSE Return(NewCast(NewIndex(maybeAddParens(lvalue),
                                                  NewIntLit(Val("", <<-1>>))), StringType))
       ELSE /\ ret # NoRet
            /\ Return(NewCast(NewIndex(Top.args[1], ret), StringType))
    /\ UNCHANGED <<status, exprDepth, draws, parens, retries, log, Outside>>

(* the top-level GenerateValueOfType call has returned to its caller *)
Finish ==
    /\ status = "run" /\ stack = <<>> /\ ret # NoRet
    /\ status' = "done"
    /\ root' = ret
    /\ UNCHANGED <<scope, symtab, stack, ret, exprDepth, draws, parens, retries, log, out, str, esc>>

(* FprintNode on the generated tree *)
PrintGenerated ==
    /\ status = "done"
    /\ out' = FprintNode(root).out
    /\ status' = "printed"
    /\ UNCHANGED <<scope, symtab, stack, ret, exprDepth, draws, parens, retries, log, root, str, esc>>

\* the types GenerateValueOfType is asked for
TopTypes ==
    {BoolType, IntType, FloatType, StringType, MixedType, EnumInt, EnumString, EnumBool,
     ArrayType(IntType), TupleType(<<BoolType, ArrayType(EnumInt)>>), TupleType(<<>>),
     VoidType, FuncAsType}

\* the generator newExprGenerator builds for a symbol table, about to be asked for a value
InitWith(tab) ==
    /\ scope \in Scopes
    /\ symtab = tab
    /\ \E typ \in TopTypes : stack = <<GenerateFrame(typ)>>
    /\ ret = NoRet
    /\ exprDepth = 0
    /\ status = "run"
    /\ draws = 0
    /\ parens = 0
    /\ retries = 0
    /\ log = NoLog
    /\ root = Nil
    /\ out = <<>>
    /\ str = <<>>
    /\ esc = <<>>

Init == InitWith(FullSymtab)

Next ==
    \/ GenerateValueOfType
    \/ ChooseExprEnter
    \/ ChooseExprProbe
    \/ ChooseExprGot
    \/ cmpOp
    \/ binaryOp
    \/ unaryOp
    \/ withCastOp
    \/ ternary
    \/ intNegationOp
    \/ castToType
    \/ mixedValue
    \/ callOfType
    \/ arrayValue
    \/ tupleValue
    \/ stringIndexOp
    \/ Finish
    \/ PrintGenerated

Spec == Init /\ [][Next]_vars

\* the generator over the symbol table of scenario S1
InitSparse == InitWith(SparseSymtab)
SpecSparse == InitSparse /\ [][Next]_vars

(***************************************************************************)
(* newTernary on its own: intTernary / floatTernary, drawn by a top-level  *)
(* intValue / floatValue, at the point where condValue and the two branch  *)
(* values have returned.  The operands are trees that condValue, intValue  *)
(* and floatValue return: literals, and operators over literals built the  *)
(* way cmpOpGenerator, binaryOpGenerator and unaryOpGenerator build them.  *)
(***************************************************************************)
TernaryConds ==
    LET t == NewBoolLit(Val("true", <<>>))
        z == NewIntLit(Val("", <<0>>))
    IN  {t,
         Node("Not", <<maybeAddParens(t)>>, NoVal, NilType),
         Node("Equal2", <<maybeAddParens(z), maybeAddParens(z)>>, NoVal, NilType),
         NewParens(Node("And", <<maybeAddParens(t), maybeAddParens(t)>>, NoVal, NilType))}
TernaryBranches(chan) ==
    LET lits == Literals(chan)
        a == CHOOSE n \in lits : TRUE
    IN  lits \cup {Node("Sub", <<maybeAddParens(a), maybeAddParens(b)>>, NoVal, ChanType(chan)) :
                      b \in lits}
             \cup {NewParens(a)}

InitTernary ==
    /\ \E chan \in {"int", "float"}, cond \in TernaryConds :
         \E x \in TernaryBranches(chan), y \in TernaryBranches(chan) :
           /\ stack = << [ChooseFrame(chan) EXCEPT !.pc = "gen", !.i = 1],
                         [ProducerFrame(TernaryOf(chan)) EXCEPT
                            !.n = 3, !.k = 3, !.args = <<cond, x>>] >>
           /\ ret = y
    /\ exprDepth = 1
    /\ status = "run"
    /\ scope = ScopeEmpty /\ symtab = FullSymtab
    /\ draws = 0 /\ parens = 0 /\ retries = 0 /\ log = NoLog
    /\ root = Nil /\ out = <<>> /\ str = <<>> /\ esc = <<>>

NextTernary == ternary \/ ChooseExprGot \/ Finish \/ PrintGenerated
SpecTernary == InitTernary /\ [][NextTernary]_vars

(***************************************************************************)
(* The printer on its own: FprintRootNode and FprintNode on IR trees that  *)
(* a caller hands over, among them compound assignments, nodes of the      *)
(* opcodes Case and Default outside a Switch and a node whose opcode is    *)
(* outside the enumeration.                                                *)
(***************************************************************************)
PrintOperands == {NewIntLit(Val("", <<0>>)), NewVar("a", NilType)}
ArithNodes ==
    {Node(op, <<x, y>>, NoVal, t) :
        op \in {"Div", "Mod", "Add"}, x \in PrintOperands, y \in PrintOperands,
        t \in {NilType, IntType, FloatType}}
AssignModifyNodes ==
    {Node("AssignModify", <<NewVar("a", NilType), x>>, Val(op, <<>>), NilType) :
        op \in {"Add", "Concat", "Div", "Mod"},
        x \in PrintOperands \cup {NewParens(n) : n \in {m \in ArithNodes : m.typ = IntType}}}
UnlistedNodes ==
    {Node(op, args, NoVal, NilType) :
        op \in {"Case", "Default", "Invalid"},
        args \in {<<>>, <<NewIntLit(Val("", <<0>>))>>}}
StmtNodes ==
    {Node("Echo", <<x>>, NoVal, NilType) : x \in ArithNodes}
      \cup {Node("Block", <<x>>, NoVal, NilType) : x \in AssignModifyNodes \cup UnlistedNodes}
      \cup {Node("Switch", <<NewVar("a", NilType), c>>, NoVal, NilType) :
                c \in {n \in UnlistedNodes : n.op = "Default" \/ (n.op = "Case" /\ n.args # <<>>)}}
\* statements: non-compound ones, Blocks and a Switch of them, If and While
\* over those and over each other, and Blocks of two statements
EchoStmt == Node("Echo", <<NewIntLit(Val("", <<0>>))>>, NoVal, NilType)
EmptyBlock == Node("Block", <<>>, NoVal, NilType)
SimpleStmts ==
    {EchoStmt,
     Node("ReturnVoid", <<>>, NoVal, NilType),
     Node("Assign", <<NewVar("a", NilType),
                      Node("ArrayLit", <<NewIntLit(Val("", <<0>>)),
                                         Node("ArrayLit", <<NewVar("a", NilType)>>, NoVal, NilType)>>,
                           NoVal, NilType)>>, NoVal, NilType)}
SwitchOf(x) ==
    Node("Switch", <<NewVar("a", NilType),
                     Node("Case", <<NewIntLit(Val("", <<0>>)), x,
                                    Node("Break", <<>>, Val("", <<0>>), NilType)>>, NoVal, NilType),
                     Node("Default", <<x>>, NoVal, NilType)>>, NoVal, NilType)
BraceStmts ==
    {EmptyBlock} \cup {Node("Block", <<x>>, NoVal, NilType) : x \in SimpleStmts}
                 \cup {SwitchOf(x) : x \in SimpleStmts}
LoopStmts(bodies) ==
    {Node(op, <<NewVar("a", NilType), b>>, NoVal, NilType) : op \in {"If", "While"}, b \in bodies}
FlatStmts == SimpleStmts \cup BraceStmts \cup LoopStmts(SimpleStmts \cup BraceStmts)
SeqStmts ==
    {EchoStmt, Node("ReturnVoid", <<>>, NoVal, NilType), EmptyBlock, SwitchOf(EchoStmt)}
      \cup LoopStmts({EchoStmt, EmptyBlock})
NestedStmts ==
    LoopStmts(LoopStmts({EchoStmt, EmptyBlock}))
      \cup {Node("Block", <<x, y>>, NoVal, NilType) : x \in SeqStmts, y \in SeqStmts}
      \cup {Node("Block", <<Node("Block", <<x>>, NoVal, NilType)>>, NoVal, NilType) :
                x \in {EchoStmt, EmptyBlock}}
PrintInputs ==
    ArithNodes \cup AssignModifyNodes \cup UnlistedNodes \cup StmtNodes \cup FlatStmts
      \cup NestedStmts

InitPrint ==
    /\ root \in PrintInputs
    /\ status = "print"
    /\ scope = ScopeEmpty /\ symtab = FullSymtab /\ stack = <<>> /\ ret = NoRet /\ exprDepth = 0
    /\ draws = 0 /\ parens = 0 /\ retries = 0 /\ log = NoLog
    /\ out = <<>> /\ str = <<>> /\ esc = <<>>

(* FprintRootNode on a RootStmt: it returns no error and has no fatal path *)
PrintRootStmt ==
    /\ status = "print"
    /\ out' = FprintRootNode(root).out
    /\ status' = "printed"
    /\ UNCHANGED <<scope, symtab, stack, ret, exprDepth, draws, parens, retries, log, root, str, esc>>

(* FprintNode *)
PrintNode ==
    /\ status = "print"
    /\ out' = FprintNode(root).out
    /\ status' = "printed node"
    /\ UNCHANGED <<scope, symtab, stack, ret, exprDepth, draws, parens, retries, log, root, str, esc>>

NextPrint == PrintRootStmt \/ PrintNode
SpecPrint == InitPrint /\ [][NextPrint]_vars

(***************************************************************************)
(* The string escaper on its own: a byte string, printed as a string       *)
(* literal and as the literal part of an interpolated string.              *)
(***************************************************************************)
\* the bytes the strings are made of: the control bytes with a letter
\* escape, NUL, other control bytes, the quote, the backslash, digits,
\* letters that follow a backslash in an escape, and bytes above 127
EscBytes == {0, 1, 7, 8, 9, 10, 11, 12, 13, 27, 31, 34, 48, 55, 92, 97, 110, 127, 128, 255}
ByteStrings == UNION {[1..k -> EscBytes] : k \in 0..MaxStrLen}

InitEsc ==
    /\ str \in ByteStrings
    /\ status = "escape"
    /\ scope = ScopeEmpty /\ symtab = FullSymtab /\ stack = <<>> /\ ret = NoRet /\ exprDepth = 0
    /\ draws = 0 /\ parens = 0 /\ retries = 0 /\ log = NoLog
    /\ root = Nil /\ out = <<>> /\ esc = <<>>

(* printString on a StringLit *)
PrintStringLit ==
    /\ status = "escape"
    /\ root' = NewStringLit(Val("", str))
    /\ esc' = getStringBytes(str)
    /\ out' = FprintNode(root').out
    /\ status' = "printed"
    /\ UNCHANGED <<scope, symtab, stack, ret, exprDepth, draws, parens, retries, log, str>>

(* printNode on an InterpolatedString with one literal part *)
PrintInterpolated ==
    /\ status = "escape"
    /\ root' = Node("InterpolatedString", <<NewStringLit(Val("", str))>>, NoVal, NilType)
    /\ esc' = getStringBytes(str)
    /\ out' = FprintNode(root').out
    /\ status' = "printed"
    /\ UNCHANGED <<scope, symtab, stack, ret, exprDepth, draws, parens, retries, log, str>>

NextEsc == PrintStringLit \/ PrintInterpolated
SpecEsc == InitEsc /\ [][NextEsc]_vars

(***************************************************************************)
(* Properties of the generator, checked under Spec.                        *)
(***************************************************************************)
\* the calls of chooseExpr that got past the depth check
PastDepthCheck == {j \in 1..Len(stack) : stack[j].fn = "chooseExpr" /\ stack[j].pc # "entry"}
\* the opcode of the literal each channel's list-level fallback builds
FallbackLitOp ==
    [cond |-> "BoolLit", bool |-> "BoolLit", int |-> "IntLit", float |-> "FloatLit",
     string |-> "StringLit"]

\* C1 as stated: whenever chooseExpr is entered with exprDepth at or above
\* the cap 10 it makes no option draw, so no call of chooseExpr that was
\* entered at depth 10 or more is ever in its draw loop.
C1_NoDrawAtOrAboveCap == \A j \in PastDepthCheck : stack[j].d < DepthCap

\* C1, amended: chooseExpr makes no option draw and returns the channel's
\* list-level fallback literal exactly when it is entered with exprDepth
\* strictly above the cap 10; entered at depth 10 or less it goes on to draw.
C1_NoDrawAboveCap ==
    /\ \A j \in PastDepthCheck : stack[j].d <= DepthCap
    /\ log.kind = "cap" =>
          /\ log.d > DepthCap
          /\ log.node.op = FallbackLitOp[log.op]
          /\ log.node.args = <<>>

\* C1's case: a call of chooseExpr was cut short by the cap
C1_CapHit == log.kind = "cap" /\ log.op = "string" /\ ret = log.node


RECURSIVE SeqSum(_)
SeqSum(s) == IF s = <<>> THEN 0 ELSE Head(s) + SeqSum(Tail(s))
RECURSIVE Size(_)
\* the number of IR nodes of a tree
Size(n) == 1 + SeqSum([i \in 1..Len(n.args) |-> Size(n.args[i])])

\* the work one active call has left: it falls whenever the call moves on,
\* and a call that replaces another (`return g.other(...)`) starts lower
FrameMeasure(fr) ==
    CASE fr.fn = "GenerateValueOfType" -> 10
      [] fr.fn = "mixedValue" -> 9
      [] fr.fn = "chooseExpr" -> (CASE fr.pc = "entry" -> 3 [] fr.pc = "loop" -> 2 [] OTHER -> 1)
      [] OTHER -> IF fr.k = 0 THEN 8 ELSE 1 + fr.n - fr.k
StatusMeasure(st) == CASE st = "run" -> 2 [] st = "done" -> 1 [] OTHER -> 0
\* no run nests more calls than this: at most four per level of exprDepth
StackBound == 4 * (DepthCap + 3)
\* the rank of a state is the sequence of the measures of its active calls,
\* the outermost first, padded with zeros, and then the measure of its status
MeasureAt(stk, j) == IF j <= Len(stk) THEN FrameMeasure(stk[j]) ELSE 0
RECURSIVE RankLess(_, _, _, _, _)
\* the rank of <<stk2, st2>> is below the rank of <<stk1, st1>> in the
\* lexicographic order, the positions before j being equal
RankLess(j, stk2, st2, stk1, st1) ==
    IF j > Max(Len(stk1), Len(stk2)) THEN StatusMeasure(st2) < StatusMeasure(st1)
    ELSE IF MeasureAt(stk2, j) < MeasureAt(stk1, j) THEN TRUE
    ELSE IF MeasureAt(stk2, j) > MeasureAt(stk1, j) THEN FALSE
    ELSE RankLess(j + 1, stk2, st2, stk1, st1)
\* the same, starting after the calls that both stacks share
RankFalls(stk2, st2, stk1, st1) ==
    LET shared == Min(Len(stk1), Len(stk2)) - 1
    IN  IF shared > 0 /\ SubSeq(stk1, 1, shared) = SubSeq(stk2, 1, shared)
        THEN RankLess(shared + 1, stk2, st2, stk1, st1)
        ELSE RankLess(1, stk2, st2, stk1, st1)
RECURSIVE SizeBound(_)
\* a bound on the size of what chooseExpr returns when entered at depth d
SizeBound(d) == IF d > DepthCap THEN 1 ELSE 3 * SizeBound(d + 1) + 7
\* a call of chooseExpr returns in this step
ChooseExprReturns == Running("chooseExpr") /\ stack' = Front(stack)

\* C2: GenerateValueOfType terminates under every sequence of PRNG outcomes:
\* every step of the generator strictly lowers a lexicographic rank over a
\* call stack of bounded length (so no run recurses or loops forever), and
\* the size of each tree chooseExpr returns is bounded by a constant of the
\* depth it was entered at, the finished tree by a constant.
C2_Terminates ==
    [][/\ RankFalls(stack', status', stack, status)
       /\ Len(stack') <= StackBound
       /\ ChooseExprReturns => Size(ret') <= SizeBound(exprDepth')
       /\ status' = "done" => Size(root') <= 2 * SizeBound(0)]_vars

\* C2's case: a run that recursed down to the depth cap has returned its tree
C2_Returned == status = "done" /\ Height(root) > DepthCap


\* the height chooseExpr's result can have when it is entered at depth d:
\* each level of exprDepth adds at most four nodes to the longest path (the
\* operator, a Cast or the ternary's Parens, the operand's Parens and the
\* Parens of chooseExpr's own roll), over the fallback literal above the cap
HeightBound(d) == IF d > DepthCap THEN 1 ELSE 4 * (DepthCap + 1 - d) + 1

\* C3 as stated: no expression tree returned by GenerateValueOfType has
\* height (IR nodes on the longest root-to-leaf path, Parens and Cast
\* included) greater than 12.
C3_HeightAtMost12 == (status = "run" /\ stack = <<>> /\ ret \notin {NoRet, Nil}) => Height(ret) <= 12

\* C3, amended: the tree chooseExpr returns when entered at depth d has
\* height at most 4 * (11 - d) + 1 for d <= 10 and height 1 above the cap,
\* so no tree returned by GenerateValueOfType is higher than 45.
C3_HeightBounded ==
    [][/\ ChooseExprReturns => Height(ret') <= HeightBound(exprDepth')
       /\ status' = "done" => Height(root') <= HeightBound(0)]_vars

\* C3's case: GenerateValueOfType has returned a tree higher than 12
C3_Higher == status = "done" /\ Height(root) > 12


\* the printed form of a call name(x, y)
PrintedCall(name, x, y) ==
    <<Piece("s", name, <<>>), Piece("s", "(", <<>>)>> \o FprintNode(x).out
        \o <<Piece("s", ", ", <<>>)>> \o FprintNode(y).out \o <<Piece("s", ")", <<>>)>>
FloatVariant ==
    [Equal2 |-> "FloatEqual2", Equal3 |-> "FloatEqual3", NotEqual2 |-> "NotFloatEqual2",
     NotEqual3 |-> "NotFloatEqual3"]
FloatHelperName ==
    [FloatEqual2 |-> "float_eq2", FloatEqual3 |-> "float_eq3", NotFloatEqual2 |-> "float_neq2",
     NotFloatEqual3 |-> "float_neq3"]

\* C4: a comparison node the generator builds carries a Float variant opcode
\* if and only if its two operands were generated for scalar kind Float (a
\* plain Equal2/Equal3/NotEqual2/NotEqual3 node never has Float operands),
\* and the printer writes a Float variant as a call float_eq2 / float_eq3 /
\* float_neq2 / float_neq3 (x, y), never with an infix operator.
C4_FloatCompare ==
    log.kind = "cmp" =>
      /\ log.op \in DOMAIN FloatVariant
      /\ log.node.op = (IF log.typ = FloatType THEN FloatVariant[log.op] ELSE log.op)
      /\ log.node.op \in DOMAIN FloatHelperName =>
            FprintNode(log.node).out =
                PrintedCall(FloatHelperName[log.node.op], log.node.args[1], log.node.args[2])

\* C4's case: the generator built a strict comparison of two Float operands
C4_FloatCompared ==
    log.kind = "cmp" /\ log.typ = FloatType /\ log.op = "Equal3" /\ status = "printed"

\* C7: every option chooseExpr can draw yields a node, from its generate
\* thunk or else from its own fallback, in every channel and every scope:
\* nothing (nil) is only ever returned to chooseExpr by an option that has
\* a fallback which yields a node, chooseExpr never returns nothing, and
\* its loop never goes round a second time.
C7_NeverExhausted ==
    /\ retries = 0
    /\ ret = Nil =>
          /\ Running("chooseExpr") /\ Top.pc = "gen"
          /\ choices[Top.chan].options[Top.i].fallback # NoProd
          /\ Nil \notin LeafResults(scope, choices[Top.chan].options[Top.i].fallback)

\* C7's case: stringIndex returned nothing and chooseExpr turns to its fallback
C7_GenerateFailed ==
    /\ Running("chooseExpr") /\ Top.pc = "gen" /\ ret = Nil
    /\ choices[Top.chan].options[Top.i].generate = stringIndex

\* C8: callOfType(F) builds a Call of Name(F.name) with n arguments,
\* F.min_args <= n <= len(F.params); argument i is what GenerateValueOfType
\* returned for F.params[i].type, wrapped in a Cast to that type exactly
\* when the parameter is strict; the call is wrapped in a Cast to F.result
\* exactly when F.need_cast is set.
C8_CallShape ==
    log.kind = "call" =>
      LET f == log.f
          n == Len(log.raws)
          call == IF f.needCast THEN log.node.args[1] ELSE log.node
      IN  /\ f.min <= n /\ n <= Len(f.params)
          /\ f.needCast => log.node.op = "Cast" /\ log.node.typ = f.result /\ Len(log.node.args) = 1
          /\ call.op = "Call"
          /\ Len(call.args) = n + 1
          /\ call.args[1].op = "Name" /\ call.args[1].val.s = f.name
          /\ \A i \in 1..n :
                LET arg == call.args[i + 1]
                    raw == log.raws[i]
                IN  IF f.params[i].strict
                    THEN /\ arg.op = "Cast" /\ arg.typ = f.params[i].typ
                         /\ arg.args \in {<<raw>>, <<NewParens(raw)>>}
                    ELSE arg = raw

\* C8's case: a call with a strict and a non-strict argument and a cast result
C8_CallBuilt == log.kind = "call" /\ Len(log.raws) = 2 /\ log.f.needCast


(***************************************************************************)
(* Properties of the printer, checked under SpecPrint and SpecEsc.         *)
(***************************************************************************)
\* C5: for every IR tree the printer serializes, Div and Mod are never
\* written with their raw operator spelling / or %: nothing the printer
\* writes is the lexeme of a division or a modulus.
C5_NoRawDivMod ==
    status \in {"printed", "printed node"} =>
        \A i \in 1..Len(out) : out[i].k = "s" => out[i].s \notin {"/", "%"}

RECURSIVE Unescape(_)
\* a byte string read back under the escape rules: backslash and r, n, the
\* quote, the backslash, a, b, f, t, v stand for one byte, backslash, 0 and
\* two octal digits for the byte with that value, any other byte for
\* itself; <<-1>> marks an escape that the rules do not have
Unescape(e) ==
    IF e = <<>> THEN <<>>
    ELSE IF Head(e) # 92 THEN <<Head(e)>> \o Unescape(Tail(e))
    ELSE IF Len(e) < 2 THEN <<-1>>
    ELSE IF e[2] \in {114, 110, 34, 92, 97, 98, 102, 116, 118}
    THEN <<CASE e[2] = 114 -> 13 [] e[2] = 110 -> 10 [] e[2] = 34 -> 34 [] e[2] = 92 -> 92
             [] e[2] = 97 -> 7 [] e[2] = 98 -> 8 [] e[2] = 102 -> 12 [] e[2] = 116 -> 9
             [] e[2] = 118 -> 11>> \o Unescape(SubSeq(e, 3, Len(e)))
    ELSE IF e[2] = 48 /\ Len(e) >= 4 /\ e[3] \in 48..55 /\ e[4] \in 48..55
    THEN <<(e[3] - 48) * 8 + (e[4] - 48)>> \o Unescape(SubSeq(e, 5, Len(e)))
    ELSE <<-1>>

\* C9: for every byte string s, reading the output of getStringBytes back
\* under the printer's escape rules yields exactly s (so the escaper is
\* injective), and that output is what a string literal carries between
\* its quotes and what an interpolated string carries for a literal part.
C9_EscapeRoundTrip ==
    status = "printed" =>
        /\ Unescape(esc) = str
        /\ out = <<Piece("s", "\"", <<>>), Piece("bytes", "", esc), Piece("s", "\"", <<>>)>>

\* C9's case: a string of a control byte and a backslash was escaped
C9_Escaped == status = "printed" /\ str = <<27, 92>> /\ Len(esc) = 6

\* C10: when the printer is given a node whose opcode has no printing rule
\* the operation fails fatally instead of producing output as if the
\* request were valid.
C10_UnknownOpcodeFatal ==
    (status # "print" /\ root.op \notin KnownOps) => (status = "panic" /\ out = <<>>)

\* C12: Enum literal membership.  What GenerateValueOfType returns for an
\* Enum type E is a variable that the scope holds with type E, or a literal
\* whose opcode is the one of E's value kind (IntLit, FloatLit, StringLit)
\* and whose value is one of E's declared values.
C12_EnumMembership ==
    log.kind = "enum" =>
        \/ /\ log.node.op = "Var"
           /\ \E v \in FindVarOfType(scope, log.typ) : log.node = NewVar(v.name, log.typ)
        \/ /\ log.typ.kind \in {"int", "float", "string"}
           /\ log.node.op = LitOp(log.typ.kind)
           /\ log.node.args = <<>>
           /\ \E j \in 1..Len(log.typ.vals) : log.node.val = log.typ.vals[j]

\* C12's case: with a variable of the Enum in scope, the literal of the
\* Enum's second value was returned as an argument of a call
C12_EnumLiteral ==
    /\ log.kind = "enum" /\ log.typ = EnumInt /\ log.node.op = "IntLit"
    /\ log.node.val = EnumInt.vals[2]
    /\ FindVarOfType(scope, EnumInt) # {}
    /\ Len(stack) > 1

\* the opcodes of the nodes that take operands: binary and comparison
\* operators, unary operators, casts and the ternary
OperandOps == BinaryOps \cup {"Div", "Mod"} \cup FloatCmpOps \cup PrefixOps \cup {"Cast", "Ternary"}

\* in the tree n, every operand of a node whose opcode is in ops is simple
RECURSIVE OperandsSimple(_, _)
OperandsSimple(n, ops) ==
    /\ n.op \in ops => \A j \in 1..Len(n.args) : isSimpleNode(n.args[j])
    /\ \A j \in 1..Len(n.args) : OperandsSimple(n.args[j], ops)

\* C13: parenthesization policy.  In every tree a generator call returns,
\* each operand of a binary, comparison, unary, negation, cast or ternary
\* node is a simple node (a literal, variable, name, call, index or Parens):
\* no non-simple node is the direct operand of such a node.
C13_OperandsParenthesized ==
    /\ (ret # NoRet /\ ret # Nil) => OperandsSimple(ret, OperandOps)
    /\ root # Nil => OperandsSimple(root, OperandOps)

(***************************************************************************)
(* Properties of the generator over the symbol table of scenario S1,       *)
(* checked under SpecSparse.                                               *)
(***************************************************************************)
\* the types GenerateValueOfType has a case for
RECURSIVE KnownType(_)
KnownType(typ) ==
    CASE typ.k = "scalar" -> typ.kind \in {"bool", "int", "float", "string", "mixed"}
      [] typ.k = "enum" -> typ.kind \in {"int", "float", "string"} /\ typ.vals # <<>>
      [] typ.k \in {"array", "tuple"} -> \A j \in 1..Len(typ.elems) : KnownType(typ.elems[j])
      [] OTHER -> FALSE

\* the option whose generate thunk the innermost chooseExpr has just called
DrawnOption == choices[Top.chan].options[Top.i]

\* C11: producers are total.  The generator stops with a fatal error only in
\* GenerateValueOfType on a type it has no case for, never inside a producer;
\* and a producer hands back nothing only when it is a variable lookup (a
\* var-of-type option, or stringIndex whose lookup of a string variable
\* missed) drawn by chooseExpr from an option that has a fallback.
C11_ProducersTotal ==
    /\ status = "panic" => (Top.fn = "GenerateValueOfType" /\ ~KnownType(Top.typ))
    /\ ret = Nil => /\ Running("chooseExpr") /\ Top.pc = "gen"
                    /\ DrawnOption.generate.p \in {"var", "stringIndex"}
                    /\ DrawnOption.fallback # NoProd

(***************************************************************************)
(* Properties of the printer's statement layout, checked under SpecPrint.  *)
(***************************************************************************)
CompoundOps == {"Block", "Switch", "While", "If"}
\* a semicolon and a newline
Terminator == <<Piece("s", ";", <<>>), Piece("s", "\n", <<>>)>>
\* the statement an If or While ends with: its body, or the body's body
RECURSIVE InnermostBody(_)
InnermostBody(n) == IF n.op \in {"While", "If"} THEN InnermostBody(n.args[2]) ELSE n
\* what follows a statement: decided by the body of an If or While being
\* compound (rule "body"), or by the statement it ends with (rule "innermost")
Term(rule, n) ==
    LET last == IF n.op \in {"While", "If"}
                THEN (IF rule = "body" THEN n.args[2] ELSE InnermostBody(n))
                ELSE n
        closed == IF rule = "body" THEN CompoundOps ELSE {"Block", "Switch"}
    IN  IF last.op \in closed THEN <<>> ELSE Terminator
\* the indentation of a line inside lvl levels
Ind(lvl) == IF lvl > 0 THEN <<Piece("indent", "", <<2 * lvl>>)>> ELSE <<>>
\* printNode's output for n inside lvl levels
PrinterAt(lvl) == [NewPrinter EXCEPT !.depth = 2 * lvl, !.seen = {2 * lvl}]
PrintAt(n, lvl) == printNode(PrinterAt(lvl), n).out

\* the text of a statement inside lvl levels, laid out by the rules: each
\* statement of a sequence on its own indented line followed by Term
RECURSIVE Layout(_, _, _)
RECURSIVE SeqLayout(_, _, _)
RECURSIVE CaseLayout(_, _, _)
Layout(n, lvl, rule) ==
    CASE n.op = "Block" ->
            <<Piece("s", "{\n", <<>>)>> \o SeqLayout(n.args, lvl + 1, rule)
                \o Ind(lvl) \o <<Piece("s", "}\n", <<>>)>>
      [] n.op = "Switch" ->
            <<Piece("s", "switch (", <<>>)>> \o PrintAt(n.args[1], lvl)
                \o <<Piece("s", ") {\n", <<>>)>> \o CaseLayout(Tail(n.args), lvl + 1, rule)
                \o Ind(lvl) \o <<Piece("s", "}\n", <<>>)>>
      [] n.op \in {"While", "If"} ->
            <<Piece("s", IF n.op = "If" THEN "if (" ELSE "while (", <<>>)>>
                \o PrintAt(n.args[1], lvl) \o <<Piece("s", ") ", <<>>)>>
                \o Layout(n.args[2], lvl, rule)
      [] OTHER -> PrintAt(n, lvl)
SeqLayout(nodes, lvl, rule) ==
    IF nodes = <<>> THEN <<>>
    ELSE Ind(lvl) \o Layout(Head(nodes), lvl, rule) \o Term(rule, Head(nodes))
             \o SeqLayout(Tail(nodes), lvl, rule)
CaseLayout(cases, lvl, rule) ==
    IF cases = <<>> THEN <<>>
    ELSE LET c == Head(cases)
         IN  Ind(lvl)
               \o (IF c.op = "Case"
                   THEN <<Piece("s", "case ", <<>>)>> \o PrintAt(c.args[1], lvl + 1)
                            \o <<Piece("s", ":\n", <<>>)>>
                            \o SeqLayout(Tail(c.args), lvl + 1, rule)
                   ELSE <<Piece("s", "default:\n", <<>>)>> \o SeqLayout(c.args, lvl + 1, rule))
               \o CaseLayout(Tail(cases), lvl, rule)

\* the printer's text of a non-compound statement does not itself end with
\* a semicolon or a newline
RECURSIVE PlainEnds(_)
PlainEnds(n) ==
    IF n.op \in CompoundOps THEN \A j \in 1..Len(n.args) : PlainEnds(n.args[j])
    ELSE IF n.op \in {"Case", "Default"} /\ n.args # <<>>
    THEN \A j \in 1..Len(n.args) : PlainEnds(n.args[j])
    ELSE LET txt == PrintAt(n, 0)
         IN  txt = <<>> \/ txt[Len(txt)] \notin {Terminator[1], Terminator[2]}

\* the statements the printer is handed
StmtInputs == StmtNodes \cup FlatStmts \cup NestedStmts

\* C14 as stated: every non-compound statement of a sequence and at top
\* level is followed by exactly one ';' and one newline, a Block or Switch
\* by neither, and an If or While by ';' and a newline exactly when its body
\* is a non-compound statement.
C14_SemicolonByBody ==
    (status = "printed" /\ root \in StmtInputs) =>
        /\ out = Layout(root, 0, "body") \o Term("body", root)
        /\ PlainEnds(root)

\* C14, amended: as above, but an If or While is followed by ';' and a
\* newline exactly when the statement it ends with (its body, or the body
\* of its body when that is an If or While again) is non-compound.
C14_SemicolonByInnermost ==
    (status = "printed" /\ root \in StmtInputs) =>
        /\ out = Layout(root, 0, "innermost") \o Term("innermost", root)
        /\ PlainEnds(root)

\* C14's case: an If over a While over an echo was printed as a top-level
\* statement and is followed by a semicolon
C14_NestedLoopPrinted ==
    /\ status = "printed"
    /\ root.op = "If" /\ root.args[2].op = "While" /\ root.args[2].args[2].op = "Echo"
    /\ Len(out) > 2 /\ SubSeq(out, Len(out) - 1, Len(out)) = Terminator

(***************************************************************************)
(* Properties of the weighted-choice tables, checked under Spec at the     *)
(* draws of chooseExpr.                                                    *)
(***************************************************************************)
\* the number of values of rand.Intn(len(indexMap)) that select option i
Draws(list, i) == Cardinality({r \in Intn(Len(list.indexMap)) : list.indexMap[r + 1] = i})
\* the sum of the options' freq
TotalFreq(list) == SeqSum([i \in 1..Len(list.options) |-> list.options[i].freq])
\* the calls of chooseExpr that have drawn an option
DrawnFrames == {j \in 1..Len(stack) : stack[j].fn = "chooseExpr" /\ stack[j].pc = "gen"}
\* the weights of the int channel's options: as the text lists them (stated),
\* or with 2 for Add and for the subtraction without a cast
IntWeights(opt, stated) ==
    LET g == opt.generate
    IN  CASE g = TernaryOf("int") -> {1}
          [] g.p = "withCast" /\ g.op \in {"Add", "Mul", "Exp", "Div", "Mod"} /\ g.typ = IntType
                -> IF stated THEN {1, 2} ELSE IF g.op = "Add" THEN {2} ELSE {1}
          [] g.p = "binaryOp" /\ g.op = "Sub" -> IF stated THEN {1} ELSE {2}
          [] g.p = "binaryOp" /\ g.op \in {"BitAnd", "BitOr", "BitXor"} -> {1}
          [] g = intNegation -> {2}
          [] g = CastOf(IntType) -> {2}
          [] g = CallOf("int") -> {7}
          [] g = LitOf("int") /\ opt.fallback = NoProd -> {4}
          [] g = VarOf("int") /\ opt.fallback = LitOf("int") -> {6}
          [] OTHER -> {}
ChoiceWeights(stated) ==
    \A j \in DrawnFrames :
        LET list == choices[stack[j].chan]
            opt == list.options[stack[j].i]
        IN  /\ Draws(list, stack[j].i) = opt.freq
            /\ Len(list.indexMap) = TotalFreq(list)
            /\ stack[j].chan = "int" => Draws(list, stack[j].i) \in IntWeights(opt, stated)

\* C15 as stated: the option a call of chooseExpr drew is selected by
\* exactly freq of the len(indexMap) = sum-of-freq values of the uniform
\* draw, and in the int channel that number is the listed weight, 1 for the
\* subtraction without a cast.
C15_WeightsSubOnce == ChoiceWeights(TRUE)

\* C15, amended: the same with weight 2 for the subtraction without a cast,
\* 2 for the cast Add and 1 for the cast Mul, Exp, Div and Mod.
C15_Weights == ChoiceWeights(FALSE)

\* C15's case: a call of chooseExpr in the int channel drew the subtraction,
\* which two of the 33 values of the draw select
C15_SubDrawn ==
    \E j \in DrawnFrames :
        /\ stack[j].chan = "int"
        /\ choices.int.options[stack[j].i].generate = binaryOpGenerator("Sub", IntType, "int")
        /\ Draws(choices.int, stack[j].i) = 2
        /\ Len(choices.int.indexMap) = 33

(***************************************************************************)
(* Properties of the depth counter, checked under Spec.                    *)
(***************************************************************************)
\* the functions whose return the counter is compared at
BalancedFns == {"chooseExpr", "callOfType", "arrayValue", "tupleValue", "GenerateValueOfType"}
\* exprDepth at the entry of the call fr, the top frame: a call that has not
\* passed its entry has changed nothing yet
EntryDepth(fr) == IF fr.pc = "entry" THEN exprDepth ELSE fr.d
\* the top frame is one of BalancedFns and returns in this step
BalancedReturns ==
    status = "run" /\ stack # <<>> /\ Top.fn \in BalancedFns /\ stack' = Front(stack)

\* C16: exprDepth is never negative; when chooseExpr, callOfType, arrayValue,
\* tupleValue or GenerateValueOfType returns (on the depth-cap path as well),
\* exprDepth is what it was at the entry of that call; and the top-level call
\* of GenerateValueOfType, started at 0, ends at 0.
C16_DepthBalanced ==
    /\ [](exprDepth >= 0)
    /\ [][BalancedReturns => exprDepth' = EntryDepth(Top)]_vars
    /\ [](status = "done" => exprDepth = 0)

\* C16's case: the top-level call has returned with the counter at 0 after
\* a call of chooseExpr entered at depth 11 took the depth-cap path
C16_CappedAndBack ==
    status = "done" /\ exprDepth = 0 /\ log.kind = "cap" /\ log.d = DepthCap + 1

(***************************************************************************)
(* Properties of the indentation counter, checked under SpecPrint.         *)
(***************************************************************************)
\* the depths of the indentations written, in the order of the text
IsIndent(pc) == pc.k = "indent"
Indents(txt) ==
    LET written == SelectSeq(txt, IsIndent)
    IN  [j \in 1..Len(written) |-> written[j].b[1]]
\* two spaces per enclosing level; no level, nothing written
Spaces(lvl) == IF lvl > 0 THEN <<2 * lvl>> ELSE <<>>
\* the indentations of the text of n inside lvl levels: a statement of a
\* Block one level deeper than the Block, a Case or Default one level deeper
\* than its Switch and its statements one level deeper again, an element of
\* an array literal one level deeper than the literal, and the closing line
\* of a Block, Switch or array literal at the level of its opening
RECURSIVE LevelsOf(_, _)
RECURSIVE LevelsOfAll(_, _, _)
RECURSIVE LevelsOfCases(_, _)
LevelsOf(n, lvl) ==
    CASE n.op = "Block" -> LevelsOfAll(n.args, lvl + 1, TRUE) \o Spaces(lvl)
      [] n.op = "Switch" ->
            LevelsOf(n.args[1], lvl) \o LevelsOfCases(Tail(n.args), lvl + 1) \o Spaces(lvl)
      [] n.op = "ArrayLit" /\ n.args # <<>> -> LevelsOfAll(n.args, lvl + 1, TRUE) \o Spaces(lvl)
      [] n.op \in KnownOps -> LevelsOfAll(n.args, lvl, FALSE)
      [] OTHER -> <<>>
\* the Case and Default lines of a Switch, each with its statements
LevelsOfCases(cases, lvl) ==
    IF cases = <<>> THEN <<>>
    ELSE LET c == Head(cases)
         IN  Spaces(lvl)
               \o (IF c.op = "Case"
                   THEN LevelsOf(c.args[1], lvl + 1) \o LevelsOfAll(Tail(c.args), lvl + 1, TRUE)
                   ELSE LevelsOfAll(c.args, lvl + 1, TRUE))
               \o LevelsOfCases(Tail(cases), lvl)
LevelsOfAll(nodes, lvl, lines) ==
    IF nodes = <<>> THEN <<>>
    ELSE (IF lines THEN Spaces(lvl) ELSE <<>>) \o LevelsOf(Head(nodes), lvl)
             \o LevelsOfAll(Tail(nodes), lvl, lines)

\* n and the nodes below it
RECURSIVE NodesOf(_)
NodesOf(n) == {n} \cup UNION {NodesOf(n.args[j]) : j \in 1..Len(n.args)}
\* the levels printNode is entered at
MaxLvl == 2

\* printNode on n, entered with the counter at 2 * lvl: the counter stays at
\* or above its value at entry by a multiple of 2, never negative, the lines
\* are indented by the levels around them, and the counter is back at its
\* value at entry when printNode returns
CounterBalanced(n, lvl) ==
    LET p == printNode(PrinterAt(lvl), n)
    IN  /\ \A d \in p.seen : d >= 0 /\ d >= 2 * lvl /\ (d - 2 * lvl) % 2 = 0
        /\ Indents(p.out) = LevelsOf(n, lvl)
        /\ p.depth = 2 * lvl

\* C17: while the printer prints a tree, and in every call of printNode on a
\* node of it, the indentation counter is never negative and a multiple of
\* 2 above its starting value, each statement line is indented by two
\* spaces per enclosing Block, Switch or Case/Default and each array element
\* by two more per enclosing array literal, and the counter is back at its
\* value at entry when printNode returns.
C17_IndentBalanced ==
    status \in {"printed", "printed node"} =>
        /\ Indents(out) = LevelsOf(root, 0)
        /\ \A n \in NodesOf(root) : \A lvl \in 0..MaxLvl : CounterBalanced(n, lvl)

\* C17's case: a Block with an assignment of an array literal inside an
\* array literal was printed, the innermost element three levels deep
C17_NestedArrayPrinted ==
    /\ status = "printed"
    /\ root.op = "Block" /\ Len(root.args) = 1 /\ root.args[1].op = "Assign"
    /\ Indents(out) = <<2, 4, 4, 6, 4, 2>>
    /\ FprintNode(root).seen = {0, 2, 4, 6}

====
